---- MODULE Spec2Model ----
(***************************************************************************)
(* Model of src/client-generator.ts: NestControllerExtractor turns the     *)
(* annotated controller declarations of a project into HttpFileMetaData    *)
(* (the IR), ClientGenerator renders the IR into client source files.      *)
(*                                                                         *)
(* Text is a sequence of one-character strings where the code works on     *)
(* characters (paths, annotation arguments, parameter names), and a        *)
(* sequence of tokens where it works on whole words (type texts, file      *)
(* names).                                                                 *)
(***************************************************************************)
EXTENDS Integers, Sequences, FiniteSets, TLC

VARIABLES nestProject, pc, cursor, controllerFiles, filesMetaData, error,
          clientFiles, saved

vars == <<nestProject, pc, cursor, controllerFiles, filesMetaData, error,
          clientFiles, saved>>

\* ------------------------------------------------------------------ bounds
\* longest annotation path argument, in characters
MaxPathLen == 3
\* deepest nesting of the parameter and return types
MaxTypeDepth == 2
\* most annotations on one method
MaxDecorators == 2
\* most source files in a project built from the core files
MaxFiles == 2
\* most path segments of a route handed to the generator
MaxSegments == 3

\* ------------------------------------------------------- JavaScript values
\* undefined in a text-valued slot: a one-element sequence holding a word, so
\* it differs from every character sequence; a template prints it "undefined".
UndefinedName == <<"undefined">>

\* arr[k] of JavaScript (0-based), undefined past the end
JsIndexName(arr, k) == IF k + 1 \in DOMAIN arr THEN arr[k + 1] ELSE UndefinedName

\* String.prototype.split(sep) on a character sequence
RECURSIVE split(_, _)
split(s, sep) ==
  IF \A k \in 1..Len(s) : s[k] # sep THEN <<s>>
  ELSE LET k == CHOOSE k \in 1..Len(s) :
                  s[k] = sep /\ \A j \in 1..(k - 1) : s[j] # sep
       IN <<SubSeq(s, 1, k - 1)>> \o split(SubSeq(s, k + 1, Len(s)), sep)

\* Array.prototype.join(sep) on a sequence of sequences
RECURSIVE join(_, _)
join(parts, sep) ==
  IF parts = <<>> THEN <<>>
  ELSE IF Len(parts) = 1 THEN parts[1]
  ELSE parts[1] \o <<sep>> \o join(Tail(parts), sep)

\* text.replace(/'/g, '')
replaceQuotes(text) == SelectSeq(text, LAMBDA c : c # "'")

\* ------------------------------------------------------------------- types
\* A ts-morph Type: kind, name and type arguments.
VoidType == [kind |-> "void", name |-> "void", args |-> <<>>]
UndefinedType == [kind |-> "undefined", name |-> "undefined", args |-> <<>>]
RefType(n) == [kind |-> "ref", name |-> n, args |-> <<>>]
PromiseOf(t) == [kind |-> "ref", name |-> "Promise", args |-> <<t>>]
ArrayOf(t) == [kind |-> "array", name |-> "Array", args |-> <<t>>]
UnionOf(a, b) == [kind |-> "union", name |-> "|", args |-> <<a, b>>]
\* the type of a method declaration node: its signature
FunctionOf(ret) == [kind |-> "fn", name |-> "=>", args |-> <<ret>>]

\* Type.getText(): the printed type, as tokens
RECURSIVE getText(_)
getText(t) ==
  CASE t.kind = "void" -> <<"void">>
    [] t.kind = "undefined" -> <<"undefined">>
    [] t.kind = "ref" ->
         IF t.args = <<>> THEN <<t.name>>
         ELSE <<t.name, "<">> \o getText(t.args[1]) \o <<">">>
    [] t.kind = "array" ->
         IF t.args[1].kind \in {"union", "fn"}
         THEN <<"(">> \o getText(t.args[1]) \o <<")", "[]">>
         ELSE getText(t.args[1]) \o <<"[]">>
    [] t.kind = "union" -> getText(t.args[1]) \o <<"|">> \o getText(t.args[2])
    [] t.kind = "fn" -> <<"(", ")", "=>">> \o getText(t.args[1])

\* Type.getTypeArguments(): the arguments of a type reference (an array is a
\* reference to Array<T>), none for any other type
getTypeArguments(t) == IF t.kind \in {"ref", "array"} THEN t.args ELSE <<>>

\* Type.isVoid()
isVoid(t) == t.kind = "void"

\* a Type object interpolated in a template: a Type object has no toString of its own
TemplateOfObject == <<"[object Object]">>

\* ------------------------------------------------------------------ errors
NoError == [kind |-> "none", parameterName |-> <<>>, methodName |-> ""]
\* new Error('No parameter with name ${parameterName} found in method ${name}')
ParameterNotFound(parameterName, methodName) ==
  [kind |-> "Error", parameterName |-> parameterName, methodName |-> methodName]
\* a TypeError raised by the runtime (property of undefined/null, find(undefined))
TypeError == [kind |-> "TypeError", parameterName |-> <<>>, methodName |-> ""]

\* ------------------------------------------------------------- declarations
\* Node.getDecorator(name): the first annotation with that name
hasDecorator(node, name) == \E k \in DOMAIN node.decorators : node.decorators[k].name = name
getDecorator(node, name) ==
  node.decorators[CHOOSE k \in DOMAIN node.decorators :
                    /\ node.decorators[k].name = name
                    /\ \A j \in 1..(k - 1) : node.decorators[j].name # name]

\* ============================================================== extractor
VerbNames == {"Get", "Post", "Put", "Delete", "Patch"}

httpMethodByDecoratorName ==
  [n \in VerbNames |->
     CASE n = "Get" -> "GET" [] n = "Post" -> "POST" [] n = "Put" -> "PUT"
       [] n = "Delete" -> "DELETE" [] n = "Patch" -> "PATCH"]

\* keys every object inherits from Object.prototype
ObjectPrototypeKeys ==
  {"constructor", "toString", "valueOf", "hasOwnProperty", "isPrototypeOf",
   "propertyIsEnumerable", "toLocaleString"}

\* name in this.httpMethodByDecoratorName: own and inherited keys
inHttpMethodByDecoratorName(name) ==
  name \in DOMAIN httpMethodByDecoratorName \/ name \in ObjectPrototypeKeys

\* this.httpMethodByDecoratorName[name]: an inherited key yields the inherited
\* function
lookupHttpMethod(name) ==
  IF name \in DOMAIN httpMethodByDecoratorName THEN httpMethodByDecoratorName[name]
  ELSE IF name \in ObjectPrototypeKeys THEN "[Function]"
  ELSE "undefined"

isControllerClass(classDeclaration) == hasDecorator(classDeclaration, "Controller")

isControllerFile(sourceFile) ==
  \E k \in DOMAIN sourceFile.classes : isControllerClass(sourceFile.classes[k])

\* /([^/]+)\.controller\.ts$/.exec(baseName)![1]; the base name is its
\* dot-separated pieces
extractFileBaseName(sourceFile) ==
  LET n == sourceFile.baseName IN
  IF Len(n) >= 3 /\ n[Len(n) - 1] = "controller" /\ n[Len(n)] = "ts"
  THEN [err |-> NoError, val |-> SubSeq(n, 1, Len(n) - 2)]
  ELSE [err |-> TypeError, val |-> <<>>]

extractApiName(sourceFile) == "wip"

extractPathOfDecorator(decorator) ==
  IF decorator.args = <<>> THEN <<>>
  ELSE replaceQuotes(decorator.args[1])

extractBasePathFromClassDeclaration(classDeclaration) ==
  extractPathOfDecorator(getDecorator(classDeclaration, "Controller"))

getHttpMethodDecoratorIndex(method) ==
  LET hits == {k \in DOMAIN method.decorators :
                 inHttpMethodByDecoratorName(method.decorators[k].name)}
  IN IF hits = {} THEN 0 ELSE CHOOSE k \in hits : \A j \in hits : k <= j

isHttpMethod(method) == getHttpMethodDecoratorIndex(method) # 0

getHttpMethodDecorator(method) == method.decorators[getHttpMethodDecoratorIndex(method)]

\* Type.getPropertyOrThrow(name).getDeclaredType() on the type of a Params
\* annotation; find(undefined) throws before any property is looked at
getPropertyOrThrow(decorator, parameterName) ==
  IF parameterName = UndefinedName THEN [err |-> TypeError, val |-> UndefinedType]
  ELSE LET hits == {k \in DOMAIN decorator.props : decorator.props[k].name = parameterName}
       IN IF hits = {} THEN [err |-> TypeError, val |-> UndefinedType]
          ELSE [err |-> NoError,
                val |-> decorator.props[CHOOSE k \in hits : \A j \in hits : k <= j].type]

\* the loop of extractPathParameterType from parameter k on
RECURSIVE extractPathParameterTypeFrom(_, _, _)
extractPathParameterTypeFrom(method, parameterName, k) ==
  IF k > Len(method.parameters)
  THEN [err |-> ParameterNotFound(parameterName, method.name), val |-> UndefinedType]
  ELSE LET parameter == method.parameters[k] IN
       IF hasDecorator(parameter, "Param")
       THEN LET parameterDecorator == getDecorator(parameter, "Param") IN
            IF parameterDecorator.args = <<>>
            THEN [err |-> TypeError, val |-> UndefinedType]
            ELSE IF replaceQuotes(parameterDecorator.args[1]) = parameterName
            THEN [err |-> NoError, val |-> parameter.type]
            ELSE extractPathParameterTypeFrom(method, parameterName, k + 1)
       ELSE IF hasDecorator(parameter, "Params")
       THEN getPropertyOrThrow(getDecorator(parameter, "Params"), parameterName)
       ELSE extractPathParameterTypeFrom(method, parameterName, k + 1)

extractPathParameterType(method, parameterName) ==
  extractPathParameterTypeFrom(method, parameterName, 1)

\* /^:[^(]+/.exec(p): the match array (element 0 only, the pattern has no
\* group), or <<>> for null
parameterParserOf(p) ==
  IF Len(p) >= 2 /\ p[1] = ":" /\ p[2] # "("
  THEN LET stop == {k \in 2..Len(p) : p[k] = "("}
           last == IF stop = {} THEN Len(p)
                   ELSE (CHOOSE k \in stop : \A j \in stop : k <= j) - 1
       IN <<SubSeq(p, 1, last)>>
  ELSE <<>>

StringSegment(p) ==
  [isString |-> TRUE, text |-> p, parameterName |-> <<>>, parameterType |-> UndefinedType]
PathParameter(parameterName, parameterType) ==
  [isString |-> FALSE, text |-> <<>>, parameterName |-> parameterName,
   parameterType |-> parameterType]

\* { parameterName, parameterType }, or the error extractPathParameterType threw
pathParameterOf(parameterName, parameterType) ==
  [err |-> parameterType.err, val |-> PathParameter(parameterName, parameterType.val)]

\* the callback of parsePath's map, given the match of its pattern on the piece
parsePathMatch(method, p, parameterParser) ==
  IF parameterParser # <<>>
  THEN pathParameterOf(JsIndexName(parameterParser, 1),
                       extractPathParameterType(method, JsIndexName(parameterParser, 1)))
  ELSE [err |-> NoError, val |-> StringSegment(p)]

\* the callback of parsePath's map, for one piece
parsePathPiece(method, p) == parsePathMatch(method, p, parameterParserOf(p))

\* the first error of a sequence of results, NoError when there is none
firstError(results) ==
  LET bad == {k \in DOMAIN results : results[k].err # NoError}
  IN IF bad = {} THEN NoError
     ELSE results[CHOOSE k \in bad : \A j \in bad : k <= j].err

values(results) == [k \in DOMAIN results |-> results[k].val]

\* what a map returns: the values, or the first error thrown by its callback
mapped(results) == [err |-> firstError(results), val |-> values(results)]

parsePathPieces(method, pieces) ==
  [k \in DOMAIN pieces |-> parsePathPiece(method, pieces[k])]

\* a variant that drops the empty pieces of the split
parsePath_DropEmpty(basePath, decorator, method) ==
  mapped(parsePathPieces(method,
                         SelectSeq(split(basePath \o extractPathOfDecorator(decorator), "/"),
                                   LAMBDA p : p # <<>>)))

parsePath(basePath, decorator, method) ==
  mapped(parsePathPieces(method, split(basePath \o extractPathOfDecorator(decorator), "/")))

isPromiseType(type) ==
  LET text == getText(type) IN Len(text) >= 2 /\ text[1] = "Promise" /\ text[2] = "<"

\* if (this.isPromiseType(t)) t = t.getTypeArguments()[0]
unwrapPromise(type) ==
  IF isPromiseType(type)
  THEN IF getTypeArguments(type) = <<>> THEN UndefinedType ELSE getTypeArguments(type)[1]
  ELSE type

firstParameterWith(method, name) ==
  LET hits == {k \in DOMAIN method.parameters : hasDecorator(method.parameters[k], name)}
  IN IF hits = {} THEN 0 ELSE CHOOSE k \in hits : \A j \in hits : k <= j

Absent == [present |-> FALSE, name |-> <<>>, type |-> UndefinedType]
Present(name, type) == [present |-> TRUE, name |-> name, type |-> type]

\* extractRequestBody, given the position of the first Body parameter (0: none)
requestBodyAt(method, k) ==
  IF k = 0 THEN Absent
  ELSE Present(method.parameters[k].name, unwrapPromise(method.parameters[k].type))

extractRequestBody(method) == requestBodyAt(method, firstParameterWith(method, "Body"))

\* extractResponseBody, given the unwrapped type
responseBodyOf(responseType) ==
  IF responseType = UndefinedType THEN [err |-> TypeError, val |-> Absent]
  ELSE IF isVoid(responseType) THEN [err |-> NoError, val |-> Absent]
  ELSE [err |-> NoError, val |-> Present(<<>>, responseType)]

\* method.getType() is the type of the method declaration, its signature
extractResponseBody(method) == responseBodyOf(unwrapPromise(FunctionOf(method.returnType)))

\* extractQueryParametersType, given the position of the first QueryParams
\* parameter (0: none)
queryParametersAt(method, k) ==
  IF k = 0 THEN Absent
  ELSE Present(method.parameters[k].name, method.parameters[k].type)

extractQueryParametersType(method) ==
  queryParametersAt(method, firstParameterWith(method, "QueryParams"))

\* the object extractHttpMethodMetaData returns, given its verb annotation, its
\* parsed path and its response body
httpMethodMetaDataOf(method, decorator, path, responseBody) ==
  [err |-> IF path.err # NoError THEN path.err ELSE responseBody.err,
   val |-> [name |-> method.name,
            path |-> path.val,
            method |-> lookupHttpMethod(decorator.name),
            requestBody |-> extractRequestBody(method),
            responseBody |-> responseBody.val,
            queryParameters |-> extractQueryParametersType(method)]]

\* extractHttpMethodMetaData, given the verb annotation of the method
extractHttpMethodMetaDataWith(basePath, method, decorator) ==
  httpMethodMetaDataOf(method, decorator, parsePath(basePath, decorator, method),
                       extractResponseBody(method))

extractHttpMethodMetaData(basePath, method) ==
  extractHttpMethodMetaDataWith(basePath, method, getHttpMethodDecorator(method))

extractHttpMethodsMetaData(basePath, methods) ==
  [k \in DOMAIN methods |-> extractHttpMethodMetaData(basePath, methods[k])]

extractHttpMethodMetaDataFromClassDeclaration(basePath, classDeclaration) ==
  mapped(extractHttpMethodsMetaData(basePath,
                                    SelectSeq(classDeclaration.methods, isHttpMethod)))

\* name.replace(/Controller$/, ''); a class name is its words
stripControllerSuffix(name) ==
  IF name # <<>> /\ name[Len(name)] = "Controller" THEN SubSeq(name, 1, Len(name) - 1)
  ELSE name

\* the object extractHttpClassMetaDataFromClassDeclaration returns, given the
\* extracted methods
httpClassMetaDataOf(classDeclaration, methods) ==
  [err |-> methods.err,
   val |-> [methods |-> methods.val,
            baseName |-> stripControllerSuffix(classDeclaration.name)]]

extractHttpClassMetaDataFromClassDeclaration(classDeclaration) ==
  httpClassMetaDataOf(
    classDeclaration,
    extractHttpMethodMetaDataFromClassDeclaration(
      extractBasePathFromClassDeclaration(classDeclaration), classDeclaration))

extractHttpClassesMetaData(classes) ==
  [k \in DOMAIN classes |-> extractHttpClassMetaDataFromClassDeclaration(classes[k])]

extractHttpClassMetaData(sourceFile) ==
  mapped(extractHttpClassesMetaData(SelectSeq(sourceFile.classes, isControllerClass)))

\* the object extractHttpFileMetadata returns, given the base name and the
\* extracted classes
httpFileMetaDataOf(sourceFile, fileBaseName, classes) ==
  [err |-> IF fileBaseName.err # NoError THEN fileBaseName.err ELSE classes.err,
   val |-> [apiName |-> extractApiName(sourceFile),
            fileBaseName |-> fileBaseName.val,
            classes |-> classes.val]]

extractHttpFileMetadata(sourceFile) ==
  httpFileMetaDataOf(sourceFile, extractFileBaseName(sourceFile),
                     extractHttpClassMetaData(sourceFile))

\* ============================================================== generator
Words_options == <<"o", "p", "t", "i", "o", "n", "s">>

ParameterDeclaration(name, type) == [kind |-> "Parameter", name |-> name, type |-> type]

\* the loop over path of generateHttpMethodParameters from segment k on
RECURSIVE pathParametersFrom(_, _)
pathParametersFrom(path, k) ==
  IF k > Len(path) THEN <<>>
  ELSE IF path[k].isString THEN pathParametersFrom(path, k + 1)
  ELSE <<ParameterDeclaration(path[k].parameterName, getText(path[k].parameterType))>>
         \o pathParametersFrom(path, k + 1)

\* a variant that emits the query parameters before the request body
generateHttpMethodParameters_QueryFirst(httpMethodMetaData, path) ==
  LET requestBody == httpMethodMetaData.requestBody
      queryParameters == httpMethodMetaData.queryParameters
  IN pathParametersFrom(path, 1)
       \o (IF queryParameters.present
           THEN <<ParameterDeclaration(queryParameters.name, getText(queryParameters.type))>>
           ELSE <<>>)
       \o (IF requestBody.present
           THEN <<ParameterDeclaration(requestBody.name, getText(requestBody.type))>>
           ELSE <<>>)
       \o <<ParameterDeclaration(Words_options, <<"RequestOptions">>)>>

generateHttpMethodParameters(httpMethodMetaData, path) ==
  LET requestBody == httpMethodMetaData.requestBody
      queryParameters == httpMethodMetaData.queryParameters
  IN pathParametersFrom(path, 1)
       \o (IF requestBody.present
           THEN <<ParameterDeclaration(requestBody.name, getText(requestBody.type))>>
           ELSE <<>>)
       \o (IF queryParameters.present
           THEN <<ParameterDeclaration(queryParameters.name, getText(queryParameters.type))>>
           ELSE <<>>)
       \o <<ParameterDeclaration(Words_options, <<"RequestOptions">>)>>

\* a variant that leaves empty segments out of the URL
urlOfPath_SkipEmpty(path) ==
  LET kept == SelectSeq(path, LAMBDA p : ~(p.isString /\ p.text = <<>>))
  IN join([k \in DOMAIN kept |->
             IF kept[k].isString THEN kept[k].text
             ELSE <<"${">> \o kept[k].parameterName \o <<"}">>], "/")

\* path.map((p) => typeof p === 'string' ? p : a reference to p.parameterName).join('/')
urlOfPath(path) ==
  join([k \in DOMAIN path |->
          IF path[k].isString THEN path[k].text
          ELSE <<"${">> \o path[k].parameterName \o <<"}">>], "/")

\* the text around the URL in the line that declares it; the delimiters of the
\* template literal are written <template and template>
UrlDeclarationOpen == "const url = <template"
UrlDeclarationClose == "template>;"

\* the lines the statements callback writes
statementsOf(httpMethodMetaData) ==
  LET requestBody == httpMethodMetaData.requestBody
      queryParameters == httpMethodMetaData.queryParameters
  IN <<<<UrlDeclarationOpen>> \o urlOfPath(httpMethodMetaData.path) \o <<UrlDeclarationClose>>,
       <<"return http.request({">>,
       <<"...options,">>,
       <<"url,">>,
       <<"method: '", httpMethodMetaData.method, "',">>>>
       \o (IF requestBody.present THEN <<<<"body: ">> \o requestBody.name \o <<",">>>>
           ELSE <<>>)
       \o (IF queryParameters.present
           THEN <<<<"queryParams: ">> \o queryParameters.name \o <<",">>>>
           ELSE <<>>)
       \o <<<<"});">>>>

\* the template Promise<${responseBody?.type ?? 'void'}>
returnTypeOf(httpMethodMetaData) ==
  <<"Promise", "<">>
    \o (IF httpMethodMetaData.responseBody.present THEN TemplateOfObject ELSE <<"void">>)
    \o <<">">>

generateClientMethod(httpMethodMetaData) ==
  [name |-> httpMethodMetaData.name,
   returnType |-> returnTypeOf(httpMethodMetaData),
   parameters |-> generateHttpMethodParameters(httpMethodMetaData, httpMethodMetaData.path),
   isAsync |-> TRUE,
   scope |-> "public",
   statements |-> statementsOf(httpMethodMetaData)]

generateClientClass(httpClassMetaData) ==
  [name |-> httpClassMetaData.baseName \o <<"Client">>,
   isExported |-> TRUE,
   methods |-> [k \in DOMAIN httpClassMetaData.methods |->
                  generateClientMethod(httpClassMetaData.methods[k])]]

\* the classes generateClientFile adds to the empty client file
generateClientFile(httpFileMetaData) ==
  [k \in DOMAIN httpFileMetaData.classes |->
     generateClientClass(httpFileMetaData.classes[k])]

FileBasePath == "root"

\* join(fileBasePath, apiName, fileBaseName + '.client.ts')
clientFilePath(fileBasePath, fileMetaData) ==
  <<fileBasePath, fileMetaData.apiName, fileMetaData.fileBaseName \o <<"client", "ts">>>>

\* ================================================================= inputs
Decorator(name, args) == [name |-> name, args |-> args, props |-> <<>>]
Quoted(text) == <<"'">> \o text \o <<"'">>
Parameter(name, decorators, type) == [name |-> name, decorators |-> decorators, type |-> type]
Method(name, decorators, parameters, returnType) ==
  [name |-> name, decorators |-> decorators, parameters |-> parameters,
   returnType |-> returnType]
Class(name, decorators, methods) == [name |-> name, decorators |-> decorators, methods |-> methods]
SourceFile(dir, baseName, classes) == [dir |-> dir, baseName |-> baseName, classes |-> classes]

NumberType == RefType("number")
StringType == RefType("string")
UserType == RefType("User")

RECURSIVE TypesOfDepth(_)
TypesOfDepth(n) ==
  IF n = 0 THEN {VoidType, UserType}
  ELSE LET s == TypesOfDepth(n - 1)
       IN s \cup {PromiseOf(t) : t \in s} \cup {ArrayOf(t) : t \in s}
            \cup {UnionOf(t, RefType("null")) : t \in s}

Types == TypesOfDepth(MaxTypeDepth)

PathChars == {"/", ":", "i", "u", "("}
PathTexts == UNION {[1..k -> PathChars] : k \in 0..MaxPathLen}
PathArguments == {<<>>} \cup {<<Quoted(t)>> : t \in PathTexts}

\* @Param('i') i: number, @Param('j') j: string, @Params() params: {i: number}
ParamI == Parameter(<<"i">>, <<Decorator("Param", <<Quoted(<<"i">>)>>)>>, NumberType)
ParamJ == Parameter(<<"j">>, <<Decorator("Param", <<Quoted(<<"j">>)>>)>>, StringType)
ParamGroup ==
  Parameter(<<"p">>,
            <<[name |-> "Params", args |-> <<>>,
               props |-> <<[name |-> <<"i">>, type |-> NumberType]>>]>>,
            RefType("Dto"))
BodyParameter(type) == Parameter(<<"b">>, <<Decorator("Body", <<>>)>>, type)
QueryParameter == Parameter(<<"q">>, <<Decorator("QueryParams", <<>>)>>, RefType("Query"))

ParameterLists == {<<>>, <<ParamI>>, <<ParamJ, ParamI>>, <<ParamGroup>>, <<ParamJ>>}

\* routes whose verb annotation path and path bindings vary
MethodsPath ==
  {Method("getUser", <<Decorator("Get", a)>>, ps, PromiseOf(UserType)) :
     a \in PathArguments, ps \in ParameterLists}

DecoratorNames == VerbNames \cup {"UseGuards", "HttpCode", "valueOf"}
DecoratorLists == UNION {[1..k -> DecoratorNames] : k \in 0..MaxDecorators}

\* methods whose annotations vary
MethodsVerb ==
  {Method("create", [k \in DOMAIN ds |-> Decorator(ds[k], <<>>)], <<QueryParameter>>, VoidType) :
     ds \in DecoratorLists}

\* routes whose body and return types vary
MethodsType ==
  {Method("create", <<Decorator("Post", <<>>)>>, <<BodyParameter(t)>>, PromiseOf(VoidType)) :
     t \in Types}
    \cup {Method("find", <<Decorator("Get", <<>>)>>, <<>>, t) : t \in Types}
    \cup {Method("find", <<Decorator("Get", <<>>)>>, <<QueryParameter, BodyParameter(UserType)>>, t) :
            t \in TypesOfDepth(1)}

Methods == MethodsPath \cup MethodsVerb \cup MethodsType

BasePathArguments == {<<>>, <<Quoted(<<"/", "u">>)>>, <<Quoted(<<"u", "/">>)>>}

UsersName == <<"Users", "Controller">>
UsersFile == <<"users", "controller", "ts">>

\* one controller class with one method
FilesOfMethods ==
  {SourceFile("src/users", UsersFile,
              <<Class(UsersName, <<Decorator("Controller", b)>>, <<m>>)>>) :
     m \in Methods, b \in BasePathArguments}

SoundMethod == Method("list", <<Decorator("Get", <<>>)>>, <<>>, PromiseOf(UserType))
PostMethod ==
  Method("create", <<Decorator("Post", <<Quoted(<<"/", "u">>)>>)>>,
         <<BodyParameter(UserType)>>, PromiseOf(VoidType))
UnboundMethod ==
  Method("getUser", <<Decorator("Get", <<Quoted(<<"/", ":", "i">>)>>)>>, <<>>,
         PromiseOf(UserType))

UsersController == Class(UsersName, <<Decorator("Controller", <<>>)>>, <<SoundMethod, PostMethod>>)
AdminController ==
  Class(<<"Admin", "Controller">>,
        <<Decorator("Injectable", <<>>), Decorator("Controller", <<Quoted(<<"a">>)>>)>>,
        <<PostMethod>>)
BrokenController == Class(<<"Org", "Controller">>, <<Decorator("Controller", <<>>)>>,
                          <<SoundMethod, UnboundMethod>>)
UsersService == Class(<<"Users", "Service">>, <<Decorator("Injectable", <<>>)>>, <<SoundMethod>>)

\* source files of differing directory, name and classes
CoreFiles ==
  {SourceFile("src/users", UsersFile, <<UsersController>>),
   SourceFile("src/admin", UsersFile, <<AdminController>>),
   SourceFile("src/admin", <<"admin", "controller", "ts">>, <<UsersService, AdminController, UsersController>>),
   SourceFile("src/users", <<"users", "service", "ts">>, <<UsersService>>),
   SourceFile("src/users", <<"users", "controller", "ts">>, <<UsersService>>),
   SourceFile("src/users", <<"users", "ts">>, <<UsersController>>),
   SourceFile("src/org", <<"org", "controller", "ts">>, <<BrokenController>>),
   SourceFile("src", <<"app", "module", "ts">>, <<>>)}

\* the files of a project have different paths
distinctPaths(files) ==
  \A i, j \in DOMAIN files :
    i # j => <<files[i].dir, files[i].baseName>> # <<files[j].dir, files[j].baseName>>

Projects ==
  {<<f>> : f \in FilesOfMethods}
    \cup {fs \in UNION {[1..k -> CoreFiles] : k \in 0..MaxFiles} : distinctPaths(fs)}

\* ---------------------------------------------------- inputs of the generator
Segments ==
  {StringSegment(<<>>), StringSegment(<<"u">>),
   PathParameter(<<"i">>, NumberType), PathParameter(<<"j">>, PromiseOf(StringType))}
RoutePaths == UNION {[1..k -> Segments] : k \in 1..MaxSegments}
HttpMethods == {"GET", "POST", "PUT", "DELETE", "PATCH"}

Routes ==
  {[name |-> "getUser", path |-> p, method |-> v, requestBody |-> b, responseBody |-> r,
    queryParameters |-> q] :
     p \in RoutePaths, v \in HttpMethods,
     b \in {Absent, Present(<<"b">>, RefType("Dto")),
            Present(Words_options, RefType("RequestOptions"))},
     r \in {Absent, Present(<<>>, UserType)},
     q \in {Absent, Present(<<"q">>, ArrayOf(StringType))}}

RouteFileOf(fileBaseName, routes) ==
  [apiName |-> "wip", fileBaseName |-> fileBaseName,
   classes |-> <<[baseName |-> <<"Users">>, methods |-> routes]>>]

RouteFileLists ==
  {<<RouteFileOf(<<"users">>, <<r>>)>> : r \in Routes}
    \cup {<<RouteFileOf(<<"users">>, <<>>), RouteFileOf(<<"admin">>, <<r, r>>)>> :
            r \in {x \in Routes : Len(x.path) = 1}}

\* ========================================================== state machine
Init ==
  /\ nestProject \in Projects
  /\ pc = "filter"
  /\ cursor = 1
  /\ controllerFiles = <<>>
  /\ filesMetaData = <<>>
  /\ error = NoError
  /\ clientFiles = {}
  /\ saved = <<>>

\* extractHttpFilesMetadata, .filter(isControllerFile): a unit that qualifies
FilterKeep ==
  /\ pc = "filter"
  /\ cursor <= Len(nestProject)
  /\ isControllerFile(nestProject[cursor])
  /\ controllerFiles' = Append(controllerFiles, nestProject[cursor])
  /\ cursor' = cursor + 1
  /\ UNCHANGED <<nestProject, pc, filesMetaData, error, clientFiles, saved>>

\* .filter(isControllerFile): a unit that does not qualify
FilterDrop ==
  /\ pc = "filter"
  /\ cursor <= Len(nestProject)
  /\ ~isControllerFile(nestProject[cursor])
  /\ cursor' = cursor + 1
  /\ UNCHANGED <<nestProject, pc, controllerFiles, filesMetaData, error, clientFiles, saved>>

FilterDone ==
  /\ pc = "filter"
  /\ cursor > Len(nestProject)
  /\ pc' = "map"
  /\ cursor' = 1
  /\ UNCHANGED <<nestProject, controllerFiles, filesMetaData, error, clientFiles, saved>>

\* .map(extractHttpFileMetadata): one unit extracted
MapFile ==
  /\ pc = "map"
  /\ cursor <= Len(controllerFiles)
  /\ \E r \in {extractHttpFileMetadata(controllerFiles[cursor])} :
       /\ r.err = NoError
       /\ filesMetaData' = Append(filesMetaData, r.val)
  /\ cursor' = cursor + 1
  /\ UNCHANGED <<nestProject, pc, controllerFiles, error, clientFiles, saved>>

\* .map(extractHttpFileMetadata): the extraction of a unit throws, nothing is
\* returned
MapThrow ==
  /\ pc = "map"
  /\ cursor <= Len(controllerFiles)
  /\ \E r \in {extractHttpFileMetadata(controllerFiles[cursor])} :
       /\ r.err # NoError
       /\ error' = r.err
  /\ filesMetaData' = <<>>
  /\ pc' = "failed"
  /\ UNCHANGED <<nestProject, cursor, controllerFiles, clientFiles, saved>>

\* extractHttpFilesMetadata returns; its result is handed to generateClientFiles
MapDone ==
  /\ pc = "map"
  /\ cursor > Len(controllerFiles)
  /\ pc' = "generate"
  /\ cursor' = 1
  /\ UNCHANGED <<nestProject, controllerFiles, filesMetaData, error, clientFiles, saved>>

\* one turn of the loop of generateClientFiles: createSourceFile with
\* overwrite, generateClientFile, saveSync
GenerateClientFiles ==
  /\ pc = "generate"
  /\ cursor <= Len(filesMetaData)
  /\ LET fileMetaData == filesMetaData[cursor]
         clientFile == [path |-> clientFilePath(FileBasePath, fileMetaData),
                        classes |-> generateClientFile(fileMetaData)]
     IN /\ clientFiles' = {f \in clientFiles : f.path # clientFile.path} \cup {clientFile}
        /\ saved' = Append(saved, clientFile)
  /\ cursor' = cursor + 1
  /\ UNCHANGED <<nestProject, pc, controllerFiles, filesMetaData, error>>

GenerateDone ==
  /\ pc = "generate"
  /\ cursor > Len(filesMetaData)
  /\ pc' = "done"
  /\ UNCHANGED <<nestProject, cursor, controllerFiles, filesMetaData, error, clientFiles, saved>>

Next ==
  \/ FilterKeep
  \/ FilterDrop
  \/ FilterDone
  \/ MapFile
  \/ MapThrow
  \/ MapDone
  \/ GenerateClientFiles
  \/ GenerateDone

Spec == Init /\ [][Next]_vars

\* generateClientFiles called with any IR
InitGen ==
  /\ nestProject = <<>>
  /\ pc = "generate"
  /\ cursor = 1
  /\ controllerFiles = <<>>
  /\ filesMetaData \in RouteFileLists
  /\ error = NoError
  /\ clientFiles = {}
  /\ saved = <<>>

NextGen ==
  \/ GenerateClientFiles
  \/ GenerateDone

GenSpec == InitGen /\ [][NextGen]_vars

\* ================================================================= claims
Range(s) == {s[k] : k \in DOMAIN s}

\* the positions of the separator in a text, and its pieces between them
SeparatorPositions(s) == {k \in DOMAIN s : s[k] = "/"}
PieceCount(s) == Cardinality(SeparatorPositions(s)) + 1
\* position of the n-th separator; 0 before the first piece, Len(s) + 1 after the last
SeparatorAt(s, n) ==
  IF n = 0 THEN 0
  ELSE IF n > Cardinality(SeparatorPositions(s)) THEN Len(s) + 1
  ELSE CHOOSE k \in SeparatorPositions(s) :
         Cardinality({h \in SeparatorPositions(s) : h <= k}) = n
PieceAt(s, i) == SubSeq(s, SeparatorAt(s, i - 1) + 1, SeparatorAt(s, i) - 1)

\* every route handed to the generator so far, with the method generated for it
GeneratedMethods ==
  UNION {UNION {{[route |-> filesMetaData[k].classes[c].methods[m],
                  generated |-> saved[k].classes[c].methods[m]] :
                   m \in DOMAIN filesMetaData[k].classes[c].methods} :
                  c \in DOMAIN filesMetaData[k].classes} :
           k \in DOMAIN saved}

ParameterPositions(path) == {i \in DOMAIN path : ~path[i].isString}
NthParameterPosition(path, j) ==
  CHOOSE i \in ParameterPositions(path) :
    Cardinality({h \in ParameterPositions(path) : h <= i}) = j
Count(present) == IF present THEN 1 ELSE 0

C2_MethodBody ==
  \A g \in GeneratedMethods :
    LET r == g.route
        st == g.generated.statements
        b == Count(r.requestBody.present)
        q == Count(r.queryParameters.present)
        url == SubSeq(st[1], 2, Len(st[1]) - 1)
        FieldLines(head) == {k \in DOMAIN st : st[k][1] = head}
    IN /\ Len(st) = 6 + b + q
       /\ st[1][1] = UrlDeclarationOpen
       /\ st[1][Len(st[1])] = UrlDeclarationClose
       /\ PieceCount(url) = Len(r.path)
       /\ \A i \in DOMAIN r.path :
            PieceAt(url, i) = IF r.path[i].isString THEN r.path[i].text
                              ELSE <<"${">> \o r.path[i].parameterName \o <<"}">>
       /\ FieldLines("return http.request({") = {2}
       /\ st[3] = <<"...options,">>
       /\ st[4] = <<"url,">>
       /\ st[5] = <<"method: '", r.method, "',">>
       /\ FieldLines("body: ") = IF b = 1 THEN {6} ELSE {}
       /\ b = 1 => st[6] = <<"body: ">> \o r.requestBody.name \o <<",">>
       /\ FieldLines("queryParams: ") = IF q = 1 THEN {6 + b} ELSE {}
       /\ q = 1 => st[6 + b] = <<"queryParams: ">> \o r.queryParameters.name \o <<",">>
       /\ st[Len(st)] = <<"});">>

\* a body was generated for a route whose path has an empty literal, a
\* Parameter segment and another literal, with a request body and no query
C2_Witness ==
  \E g \in GeneratedMethods :
    /\ Len(g.route.path) >= 3
    /\ \E i \in DOMAIN g.route.path : g.route.path[i].isString /\ g.route.path[i].text = <<>>
    /\ \E i \in DOMAIN g.route.path : g.route.path[i].isString /\ g.route.path[i].text # <<>>
    /\ \E i \in DOMAIN g.route.path : ~g.route.path[i].isString
    /\ g.route.requestBody.present
    /\ ~g.route.queryParameters.present
    /\ Len(g.generated.statements) = 7

\* ------------------------------------------------- the extractor's claims
\* the run of extractHttpFilesMetadata has returned or thrown
Ended == pc \in {"generate", "done", "failed"}

\* the literal text of a quoted annotation argument
Unquote(text) == SubSeq(text, 2, Len(text) - 1)
ArgumentPath(decorator) == IF decorator.args = <<>> THEN <<>> ELSE Unquote(decorator.args[1])
HasAnnotation(node, names) == \E d \in Range(node.decorators) : d.name \in names
FirstAnnotation(node, names) ==
  node.decorators[CHOOSE k \in DOMAIN node.decorators :
                    /\ node.decorators[k].name \in names
                    /\ \A j \in 1..(k - 1) : node.decorators[j].name \notin names]
IsControllerAnnotated(class) == HasAnnotation(class, {"Controller"})
ControllerClasses(unit) == SelectSeq(unit.classes, IsControllerAnnotated)
Qualifies(unit) == ControllerClasses(unit) # <<>>
IsRouteMethod(m) == HasAnnotation(m, VerbNames)
RouteMethods(class) == SelectSeq(class.methods, IsRouteMethod)
CombinedPath(class, m) ==
  ArgumentPath(FirstAnnotation(class, {"Controller"}))
    \o ArgumentPath(FirstAnnotation(m, VerbNames))

IdentifierChars == {"i", "u"}
\* a piece of the form ':p', p an identifier
IsMarker(piece) ==
  Len(piece) >= 2 /\ piece[1] = ":" /\ \A k \in 2..Len(piece) : piece[k] \in IdentifierChars
MarkerName(piece) == SubSeq(piece, 2, Len(piece))
LooksLikeMarker(piece) == Len(piece) >= 2 /\ piece[1] = ":"

\* the parameters of m that carry Param with the argument p
ParamBindings(m, p) ==
  {k \in DOMAIN m.parameters :
     \E d \in Range(m.parameters[k].decorators) :
       d.name = "Param" /\ d.args # <<>> /\ Unquote(d.args[1]) = p}
HasGroupBinding(m) == \E k \in DOMAIN m.parameters : HasAnnotation(m.parameters[k], {"Params"})

HasControllerSuffix(unit) ==
  LET n == unit.baseName IN Len(n) >= 3 /\ n[Len(n) - 1] = "controller" /\ n[Len(n)] = "ts"
NamesWellFormed == \A u \in Range(nestProject) : Qualifies(u) => HasControllerSuffix(u)

\* every route method of a Controller class of the project, with its class
ProjectRoutes ==
  UNION {UNION {{[class |-> c, source |-> m] : m \in Range(RouteMethods(c))} :
                  c \in Range(ControllerClasses(u))} :
           u \in Range(nestProject)}
Pieces(e) ==
  LET combined == CombinedPath(e.class, e.source)
  IN [i \in 1..PieceCount(combined) |-> PieceAt(combined, i)]

\* every extracted route, with the class and the method it was extracted from
SourceClasses(k) == SelectSeq(controllerFiles[k].classes, isControllerClass)
SourceMethods(k, c) == SelectSeq(SourceClasses(k)[c].methods, isHttpMethod)
ExtractedRoutes ==
  UNION {UNION {{[file |-> k,
                  class |-> SourceClasses(k)[c],
                  source |-> SourceMethods(k, c)[m],
                  route |-> filesMetaData[k].classes[c].methods[m]] :
                   m \in DOMAIN filesMetaData[k].classes[c].methods} :
                  c \in DOMAIN filesMetaData[k].classes} :
           k \in DOMAIN filesMetaData}

UnboundRoutes ==
  {x \in UNION {{[source |-> e.source, parameterName |-> MarkerName(piece)] :
                   piece \in {q \in Range(Pieces(e)) : IsMarker(q)}} :
                  e \in ProjectRoutes} :
     ParamBindings(x.source, x.parameterName) = {} /\ ~HasGroupBinding(x.source)}

\* C4: when a route has a ':p' segment that no parameter binds, the whole run
\* fails, returning no RouteFile, with an error that names the route method
\* and the parameter name p.
C4_ParameterNotFound ==
  (Ended /\ NamesWellFormed /\ UnboundRoutes # {})
  => /\ pc = "failed"
     /\ filesMetaData = <<>>
     /\ \E x \in UnboundRoutes :
          /\ error.methodName = x.source.name
          /\ error.parameterName = x.parameterName

UnwrapOnce(t) ==
  IF t.kind = "ref" /\ t.name = "Promise" /\ Len(t.args) = 1 THEN t.args[1] ELSE t

\* C6: a route whose return type, one Promise layer removed, is void has no
\* responseBody and the generated return type Promise<void>; any other route
\* has the responseBody of the unwrapped type T and the generated return type
\* Promise<T>.
C6_ResponseType ==
  pc = "done" =>
    \A e \in ExtractedRoutes : IsRouteMethod(e.source) =>
      LET unwrapped == UnwrapOnce(e.source.returnType)
          generated == {g \in GeneratedMethods : g.route = e.route}
      IN IF unwrapped = VoidType
         THEN /\ ~e.route.responseBody.present
              /\ \A g \in generated : g.generated.returnType = <<"Promise", "<", "void", ">">>
         ELSE /\ e.route.responseBody.present
              /\ e.route.responseBody.type = unwrapped
              /\ \A g \in generated :
                   g.generated.returnType = <<"Promise", "<">> \o getText(unwrapped) \o <<">">>

\* C7: the request body type of an extracted route is the declared type of
\* the Body parameter with one Promise layer removed when it is a Promise, the
\* declared type itself when it is not, and is always defined.
C7_UnwrapOnce ==
  \A e \in ExtractedRoutes :
    \A k \in DOMAIN e.source.parameters :
      (/\ HasAnnotation(e.source.parameters[k], {"Body"})
       /\ \A j \in 1..(k - 1) : ~HasAnnotation(e.source.parameters[j], {"Body"}))
      => /\ e.route.requestBody.present
         /\ e.route.requestBody.type # UndefinedType
         /\ e.route.requestBody.type = UnwrapOnce(e.source.parameters[k].type)

\* C8: the routes of a class are exactly its methods that carry one of the
\* five verb annotations, in order, each with the table value of its first
\* verb annotation, one of GET, POST, PUT, DELETE, PATCH; any other annotation
\* makes no route.
C8_VerbAnnotations ==
  \A k \in DOMAIN filesMetaData : \A c \in DOMAIN filesMetaData[k].classes :
    LET want == RouteMethods(ControllerClasses(controllerFiles[k])[c])
        got == filesMetaData[k].classes[c].methods
    IN /\ Len(got) = Len(want)
       /\ \A m \in DOMAIN got :
            /\ got[m].name = want[m].name
            /\ got[m].method \in HttpMethods
            /\ got[m].method = httpMethodByDecoratorName[FirstAnnotation(want[m], VerbNames).name]

StripControllerTs(n) ==
  IF Len(n) >= 3 /\ n[Len(n) - 1] = "controller" /\ n[Len(n)] = "ts"
  THEN SubSeq(n, 1, Len(n) - 2) ELSE n
StripController(n) ==
  IF n # <<>> /\ n[Len(n)] = "Controller" THEN SubSeq(n, 1, Len(n) - 1) ELSE n

\* no route of the project has a ':' in its path
NoPathParameters ==
  \A e \in ProjectRoutes : \A piece \in Range(Pieces(e)) : \A k \in DOMAIN piece : piece[k] # ":"

\* C9: the run returns, in input order, one RouteFile for each unit with a
\* Controller class and none for the others, whatever the unit's name; each
\* holds one RouteClass per Controller class in declaration order and the
\* unit's name without its suffix. (Stated for projects without path
\* parameters, whose extraction C3 and C4 are about.)
C9_OneRouteFilePerUnit ==
  (Ended /\ NoPathParameters) =>
    LET units == SelectSeq(nestProject, Qualifies)
    IN /\ Len(filesMetaData) = Len(units)
       /\ \A k \in DOMAIN units :
            /\ filesMetaData[k].fileBaseName = StripControllerTs(units[k].baseName)
            /\ Len(filesMetaData[k].classes) = Len(ControllerClasses(units[k]))
            /\ \A c \in DOMAIN filesMetaData[k].classes :
                 filesMetaData[k].classes[c].baseName
                   = StripController(ControllerClasses(units[k])[c].name)

\* C10: after generateClientFiles there is one unit per RouteFile, at
\* <root>/<apiGroupName>/<baseFileName>.client, no two RouteFiles were written
\* to the same path and every written unit is in the output.
C10_NoAliasing ==
  pc = "done" =>
    /\ Len(saved) = Len(filesMetaData)
    /\ Cardinality(clientFiles) = Len(filesMetaData)
    /\ \A k \in DOMAIN saved :
         /\ saved[k].path = <<FileBasePath, filesMetaData[k].apiName,
                              filesMetaData[k].fileBaseName \o <<"client", "ts">>>>
         /\ saved[k] \in clientFiles
    /\ \A j, k \in DOMAIN saved : j # k => saved[j].path # saved[k].path

====
